---- MODULE Spec2Model ----
(***************************************************************************)
(* A model of the cypress-pr-videos action: run() (main.ts), the upload    *)
(* stage uploadVideos/runWithConcurrency (upload.ts) and the comment stage *)
(* postOrUpdateComment (comment.ts), with direct calls of getChangedSpecs   *)
(* (diff.ts), runWithConcurrency, buildCommentBody, collectVideoFiles and  *)
(* findMatchingVideo.                                                      *)
(*                                                                         *)
(* Strings are sequences of one-character strings, so that suffix tests,   *)
(* slicing and splitting are computed as the code computes them.  A        *)
(* comment body is a sequence of lines (the marker is one line of it).     *)
(***************************************************************************)
EXTENDS Integers, Sequences, FiniteSets, TLC

(***************************************************************************)
(* Bounds of the model.                                                    *)
(***************************************************************************)
MaxConcurrentBound == 3     \* max-concurrent-uploads is drawn from 0..this
MaxRuns == 2                \* successive invocations on the pull request per behaviour
MaxEnvComments == 1         \* unrelated comments other users add per behaviour
MaxPages == 2               \* the initial history spans up to this many full pages
MaxMapLen == 3              \* entries of a video map handed to findMatchingVideo
MaxDirEntries == 2          \* entries of the video root handed to collectVideoFiles
\* items and concurrency limits of a direct runWithConcurrency call
PoolItems == 7
PoolLimit == 5

(***************************************************************************)
(* Program constants.                                                      *)
(***************************************************************************)
PerPage == 100
DiffPerPage == 100             \* getChangedSpecs: perPage
MaxDiffPages == 30             \* getChangedSpecs: if (page > 30) break

SecondsPerHour == 3600
Mp4Len == 4

COMMENT_MARKER == "<!-- cypress-pr-videos -->"
\* JavaScript null, and an unassigned slot of a sparse array
NullV == [kind |-> "null"]
HoleV == [kind |-> "hole"]

(***************************************************************************)
(* Small helpers.                                                          *)
(***************************************************************************)
Min(a, b) == IF a < b THEN a ELSE b

\* s.endsWith(t)
EndsWith(s, t) ==
    /\ Len(t) <= Len(s)
    /\ SubSeq(s, Len(s) - Len(t) + 1, Len(s)) = t

\* arr.filter(x => x is not one of drop)
RECURSIVE FilterSeq(_, _)
FilterSeq(s, drop) ==
    IF s = <<>> THEN <<>>
    ELSE IF Head(s) \in drop THEN FilterSeq(Tail(s), drop)
         ELSE <<Head(s)>> \o FilterSeq(Tail(s), drop)

\* str.split('/')
RECURSIVE Split(_, _)
Split(s, cur) ==
    IF s = <<>> THEN <<cur>>
    ELSE IF Head(s) = "/" THEN <<cur>> \o Split(Tail(s), <<>>)
         ELSE Split(Tail(s), Append(cur, Head(s)))

\* parts.join('/')
RECURSIVE Join(_)
Join(parts) ==
    IF parts = <<>> THEN <<>>
    ELSE IF Len(parts) = 1 THEN parts[1]
         ELSE parts[1] \o <<"/">> \o Join(Tail(parts))

\* path.sep on the Linux runner
PathSep == "/"

\* path.join(dir, name)
PathJoin(dir, name) == dir \o <<PathSep>> \o name

\* path.relative(from, to) for a path to below from
PathRelative(from, to) == SubSeq(to, Len(from) + 2, Len(to))

(***************************************************************************)
(* The video directory on disk.  A directory is the sequence of its        *)
(* entries in readdir order; an entry has a name, a kind and, for a        *)
(* directory, its own entries.                                             *)
(***************************************************************************)
Mp4 == <<".", "m", "p", "4">>
VideoDir == <<"v">>

File(name)        == [name |-> name, kind |-> "file", entries |-> <<>>]
Dir(name, ents)   == [name |-> name, kind |-> "dir",  entries |-> ents]
\* an entry that is neither a directory nor a regular file (a symbolic link)
Link(name)        == [name |-> name, kind |-> "symlink", entries |-> <<>>]

\* videos/l.mp4, videos/a/l.mp4, videos/o.mp4, videos/r.json
DiskFull ==
    [exists |-> TRUE,
     entries |-> << File(<<"l">> \o Mp4),
                    Dir(<<"a">>, << File(<<"l">> \o Mp4) >>),
                    File(<<"o">> \o Mp4),
                    File(<<"r", ".", "j">>) >>]
\* the same files read in another directory order
DiskFullReordered ==
    [exists |-> TRUE,
     entries |-> << Dir(<<"a">>, << File(<<"l">> \o Mp4) >>),
                    File(<<"o">> \o Mp4),
                    File(<<"l">> \o Mp4) >>]
DiskNoVideos ==
    [exists |-> TRUE, entries |-> << File(<<"r", ".", "j">>) >>]
DiskAbsent ==
    [exists |-> FALSE, entries |-> <<>>]

Disks == {DiskFull, DiskFullReordered, DiskNoVideos, DiskAbsent}

\* upload.ts walk(dir): the entries added to the map, in insertion order
RECURSIVE walk(_, _)
walk(dir, entries) ==
    IF entries = <<>> THEN <<>>
    ELSE LET entry    == Head(entries)
             fullPath == PathJoin(dir, entry.name)
             here     ==
                 IF entry.kind = "dir" THEN walk(fullPath, entry.entries)
                 ELSE IF EndsWith(entry.name, Mp4)
                      THEN LET relative == PathRelative(VideoDir, fullPath)
                               specName == SubSeq(relative, 1, Len(relative) - Mp4Len)
                           IN  << [videoKey |-> specName, videoPath |-> fullPath] >>
                      ELSE <<>>
         IN  here \o walk(dir, Tail(entries))

\* upload.ts collectVideoFiles: a Map in insertion order
collectVideoFiles(disk) ==
    IF ~disk.exists THEN <<>> ELSE walk(VideoDir, disk.entries)

\* a test that accepts any suffix, also one that starts inside a segment
KeyMatchesAnySuffix(specPath, videoKey) == EndsWith(specPath, videoKey)

\* The match test of findMatchingVideo (path.sep is '/' on the runner)
KeyMatches(specPath, videoKey) ==
    \/ specPath = videoKey
    \/ EndsWith(specPath, <<"/">> \o videoKey)
    \/ EndsWith(specPath, <<PathSep>> \o videoKey)

\* every matching key replaces the best match so far
PrefersLatest(keyLength, bestMatchLength) == TRUE

\* findMatchingVideo: if (videoKey.length > bestMatchLength)
PrefersLonger(keyLength, bestMatchLength) == keyLength > bestMatchLength

\* upload.ts findMatchingVideo: the loop over the map, carrying bestMatch
RECURSIVE findMatchingVideoFrom(_, _, _)
findMatchingVideoFrom(specPath, videoMap, bestMatch) ==
    IF videoMap = <<>> THEN bestMatch
    ELSE LET e == Head(videoMap)
             bestMatchLength == IF bestMatch = NullV THEN 0 ELSE Len(bestMatch.videoKey)
             next ==
                 IF /\ KeyMatches(specPath, e.videoKey)
                    /\ PrefersLonger(Len(e.videoKey), bestMatchLength)
                 THEN e ELSE bestMatch
         IN  findMatchingVideoFrom(specPath, Tail(videoMap), next)

findMatchingVideo(specPath, videoMap) ==
    findMatchingVideoFrom(specPath, videoMap, NullV)

\* uploadVideos: the matching loop (upload.ts 141-156)
RECURSIVE MatchSpecs(_, _)
MatchSpecs(specs, videoMap) ==
    IF specs = <<>> THEN <<>>
    ELSE LET match == findMatchingVideo(Head(specs), videoMap)
             rest  == MatchSpecs(Tail(specs), videoMap)
         IN  IF match # NullV
             THEN << [spec |-> Head(specs),
                      videoPath |-> match.videoPath,
                      videoKey |-> match.videoKey] >> \o rest
             ELSE rest

\* uploadVideos: the warnings of the matching loop (upload.ts 150-155)
RECURSIVE UnmatchedWarnings(_, _)
UnmatchedWarnings(specs, videoMap) ==
    IF specs = <<>> THEN <<>>
    ELSE (IF findMatchingVideo(Head(specs), videoMap) = NullV
          THEN << [about |-> "spec", spec |-> Head(specs)] >>
          ELSE <<>>) \o UnmatchedWarnings(Tail(specs), videoMap)

\* collectVideoFiles: the warning for a video directory that does not exist
DirWarnings(disk) ==
    IF ~disk.exists THEN << [about |-> "dir", spec |-> <<>>] >> ELSE <<>>

(***************************************************************************)
(* The object store key and the signed URL (upload.ts 166, 179-183).       *)
(***************************************************************************)
KeyPrefix == <<"c", "/", "O", "/", "R", "/", "p", "-", "7", "/">>

\* one key for every video
ObjectKeyFixed(videoKey) == KeyPrefix \o Mp4

\* `cypress/${owner}/${repo}/pr-${prNumber}/${videoKey}.mp4`
ObjectKey(videoKey) == KeyPrefix \o videoKey \o Mp4

\* an object of the bucket: its key, and the video and the run it came from
StoredObject(key, videoKey, run) == [key |-> key, videoKey |-> videoKey, run |-> run]

\* PutObjectCommand on the bucket (no versioning): the object under the key
\* is replaced
PutObject(bucket, obj) == { o \in bucket : o.key # obj.key } \cup { obj }

\* the bucket before the run: empty, or as an earlier run on the pull request
\* left it after uploading l.mp4 and a/l.mp4
PriorStore ==
    PutObject(PutObject({}, StoredObject(ObjectKey(<<"l">>), <<"l">>, 0)),
              StoredObject(ObjectKey(<<"a", "/", "l">>), <<"a", "/", "l">>, 0))
Stores == { {}, PriorStore }

\* the URL getSignedUrl resolves to for a key
SignedUrl(key) == <<"s", ":">> \o key

(***************************************************************************)
(* comment.ts: getDisplayName and buildCommentBody.  A body is a sequence  *)
(* of lines; the first line of a built body is the marker.                 *)
(***************************************************************************)
MarkerLine == [t |-> "marker", text |-> COMMENT_MARKER]
TextLine   == [t |-> "text"]

\* parts.slice(-2)
LastTwo(parts) ==
    IF Len(parts) <= 2 THEN parts ELSE SubSeq(parts, Len(parts) - 1, Len(parts))

getDisplayName(specPath) == Join(LastTwo(Split(specPath, <<>>)))

\* the hours cut off instead of rounded
RoundHoursFloor(expirySeconds) == expirySeconds \div SecondsPerHour

\* Math.round(expirySeconds / 3600) for a non-negative integer
RoundHours(expirySeconds) ==
    (2 * expirySeconds + SecondsPerHour) \div (2 * SecondsPerHour)

Digits == <<"0", "1", "2", "3", "4", "5", "6", "7", "8", "9">>

\* String(n)
RECURSIVE NumberToString(_)
NumberToString(n) ==
    IF n < 10 THEN <<Digits[n + 1]>>
    ELSE NumberToString(n \div 10) \o <<Digits[(n % 10) + 1]>>

\* `> Videos expire ${expiryHours} hours after upload.`
ExpireLine(expirySeconds) ==
    [t |-> "expire",
     text |-> <<"> Videos expire ">> \o NumberToString(RoundHours(expirySeconds))
              \o <<" hours after upload.">>]

\* a body that does not carry the marker
buildCommentBodyUnmarked(header, res, expirySeconds) ==
    << [t |-> "header", text |-> header],
       ExpireLine(expirySeconds) >>

buildCommentBody(header, res, expirySeconds) ==
    LET rows == [i \in 1..Len(res) |->
                    [t |-> "row", name |-> getDisplayName(res[i].spec), url |-> res[i].url]]
    IN  << MarkerLine, [t |-> "header", text |-> header],
           [t |-> "blank"], [t |-> "tablehead"], [t |-> "tablerule"] >>
        \o rows
        \o << [t |-> "blank"], ExpireLine(expirySeconds) >>

\* a builder without the display-mode argument: always the table
buildCommentBodyTableOnly(header, res, expirySeconds, inline) ==
    buildCommentBody(header, res, expirySeconds)

\* buildCommentBody(header, results, expirySeconds, inline = true): one
\* <details open> block per result with the display name in <strong> and
\* the raw URL when inline, the table otherwise
buildCommentBodyWithMode(header, res, expirySeconds, inline) ==
    IF inline \in {"undefined", "true"}
    THEN << MarkerLine, [t |-> "header", text |-> header], [t |-> "blank"] >>
         \o [i \in 1..Len(res) |->
                [t |-> "details", open |-> TRUE,
                 name |-> getDisplayName(res[i].spec), url |-> res[i].url]]
         \o << [t |-> "blank"], ExpireLine(expirySeconds) >>
    ELSE buildCommentBody(header, res, expirySeconds)

\* c.body?.includes(COMMENT_MARKER) ?? false
HasMarker(c) == c.hasBody /\ \E i \in 1..Len(c.body) : c.body[i] = MarkerLine

\* a search that keeps the last marked comment of the page
RECURSIVE FindMarkedLast(_)
FindMarkedLast(cs) ==
    IF cs = <<>> THEN NullV
    ELSE IF HasMarker(cs[Len(cs)]) THEN cs[Len(cs)]
         ELSE FindMarkedLast(SubSeq(cs, 1, Len(cs) - 1))

\* comments.find(c => c.body?.includes(COMMENT_MARKER) ?? false)
RECURSIVE FindMarked(_)
FindMarked(cs) ==
    IF cs = <<>> THEN NullV
    ELSE IF HasMarker(Head(cs)) THEN Head(cs) ELSE FindMarked(Tail(cs))

(***************************************************************************)
(* The comment host: listComments returns one page of the history.         *)
(***************************************************************************)
\* a host that rewrites every comment carrying the marker
UpdateCommentAllMarked(cs, id, newBody) ==
    [k \in 1..Len(cs) |->
        IF cs[k].id = id \/ HasMarker(cs[k])
        THEN [cs[k] EXCEPT !.hasBody = TRUE, !.body = newBody]
        ELSE cs[k]]

\* issues.updateComment({comment_id, body}): the comment with that id gets
\* the body
UpdateComment(cs, id, newBody) ==
    [k \in 1..Len(cs) |->
        IF cs[k].id = id
        THEN [cs[k] EXCEPT !.hasBody = TRUE, !.body = newBody]
        ELSE cs[k]]

ListPage(cs, p) ==
    SubSeq(cs, (p - 1) * PerPage + 1, Min(p * PerPage, Len(cs)))

(***************************************************************************)
(* Inputs the environment supplies.                                        *)
(***************************************************************************)
\* changed spec paths: e/a/l, e/l, o and e/xl (no video: "l" is only a
\* partial-segment suffix of it)
Sa == <<"e", "/", "a", "/", "l">>
Sl == <<"e", "/", "l">>
So == <<"o">>
Sx == <<"e", "/", "x", "l">>

SpecLists ==
    { <<>>, <<Sx>>, <<Sa>>, <<Sa, Sx, So>>, <<Sl, Sa, So>>,
      \* two specs of the same file name in different directories
      <<Sl, <<"b", "/", "l">> >> }

DiffOutcomes ==
    { [kind |-> "ok", specs |-> sl, isError |-> FALSE, message |-> ""] : sl \in SpecLists }
    \cup { [kind |-> "throw", specs |-> <<>>, isError |-> TRUE,  message |-> "API failure"],
           [kind |-> "throw", specs |-> <<>>, isError |-> FALSE, message |-> "string error"] }

Header == "### Videos"
UrlExpirySeconds == 259200

\* an UploadResult
Result(specPath, videoKey) ==
    [spec |-> specPath, url |-> SignedUrl(ObjectKey(videoKey))]

\* results a caller may hand to postOrUpdateComment directly
DirectResults ==
    { <<>>, << Result(Sa, <<"a", "/", "l">>) >>,
      << Result(Sl, <<"l">>), Result(So, <<"o">>) >> }

\* the comment history of the pull request before the first invocation:
\* n comments, those at the positions in marked carrying an older body of
\* this action, the others a text without the marker; the second comment,
\* if unmarked, has no body at all
FirstId == 501
OldBody == buildCommentBody(Header, << Result(So, <<"o">>) >>, UrlExpirySeconds)
History(n, marked) ==
    [i \in 1..n |->
        [id |-> FirstId + i - 1,
         hasBody |-> (i \in marked \/ i # 2),
         body |-> IF i \in marked THEN OldBody
                  ELSE IF i # 2 THEN <<TextLine>> ELSE <<>>]]

\* lengths at the page boundaries: a last page that is empty, or short
HistoryLens ==
    {0, 2} \cup { k * PerPage + d : k \in 1..MaxPages, d \in {0, 1} }
\* positions of marked comments: the first comment, and the last of a page
\* and the first of the next
MarkSpots(n) ==
    { i \in {1} \cup { k * PerPage + d : k \in 1..MaxPages, d \in {0, 1} } : i <= n }
\* no marked comment, one, or two at neighbouring spots
MarkSets(n) ==
    { {} } \cup
    { {p[1], p[2]} :
        p \in { q \in MarkSpots(n) \X MarkSpots(n) :
                  /\ q[1] <= q[2]
                  /\ ~(\E y \in MarkSpots(n) : q[1] < y /\ y < q[2]) } }
UpsertHistories ==
    UNION { { History(n, m) : m \in MarkSets(n) } : n \in HistoryLens }
RunHistories ==
    { History(0, {}), History(2, {}), History(2, {2}), History(2, {1, 2}) }

(***************************************************************************)
(* State.                                                                  *)
(***************************************************************************)
VARIABLES
    pc,             \* "idle", or the call the invocation is awaiting:
                    \* "diff", "upload", "list", "update", "create"
    caller,         \* "run" or "direct": who invoked postOrUpdateComment
    runs,           \* invocations started so far
    maxConcurrent,  \* config.maxConcurrent
    changedSpecs,   \* run: specs
    videoRoot,      \* the video directory as collectVideoFiles read it, or NullV
    uploadWarnings, \* core.warning calls of uploadVideos and collectVideoFiles
    matched,        \* uploadVideos: matched
    index,          \* runWithConcurrency: index (0-based cursor)
    workers,        \* runWithConcurrency: the workers, each awaiting fn(items[i])
    results,        \* runWithConcurrency: results (sparse array)
    outcome,        \* per matched item: "none", "ok", "putfail", "signfail"
    resolved,       \* the 0-based indices of the items, in the order they resolved
    uploadState,    \* "none", "running", "returned", "threw"
    storeCalls,     \* object-store calls (put, presign) issued by the invocation
    store,          \* the objects in the bucket
    runResults,     \* run: results / postOrUpdateComment: results
    page,           \* postOrUpdateComment: page
    body,           \* postOrUpdateComment: body
    target,         \* postOrUpdateComment: existing.id (0 when absent)
    hostCalls,      \* comment-host calls issued by the invocation, in order
    upsertState,    \* "none", "skipped", "running", "created", "updated", "failed"
    comments0,      \* the history when postOrUpdateComment started listing
    comments,       \* comment host: the pull request's comments, in listing order
    nextId,         \* comment host: id of the next created comment
    envAdded,       \* comments added by other users so far
    outputs,        \* core.setOutput calls of the invocation
    failed,         \* core.setFailed calls of the invocation
    payload,        \* run: github.context.payload as read: "none", "fork", "pr"
    diffState,      \* getChangedSpecs: "none", "pending", "resolved", "rejected"
    rejection,      \* what run's catch received and the stage that raised it, or NullV
    log,            \* one entry per finished invocation
    cleanStart,     \* the initial history carried no marked comment
    unitCall        \* a direct call of collectVideoFiles or findMatchingVideo, or NullV

uploadVars  == <<maxConcurrent, changedSpecs, videoRoot, uploadWarnings, matched, index, workers, results, outcome,
                 resolved, uploadState, storeCalls, store>>
upsertVars  == <<page, body, target, hostCalls, comments0>>
hostVars    == <<comments, nextId, envAdded>>
runVars == <<pc, caller, runs, payload, maxConcurrent, changedSpecs, videoRoot, uploadWarnings, matched, index, workers, results,
          outcome, resolved, uploadState, storeCalls, store, runResults, page, body,
          target, hostCalls, upsertState, comments0, comments, nextId, envAdded,
          outputs, failed, diffState, rejection, log, cleanStart>>
vars == <<runVars, unitCall>>

InitWith(histories, stores) ==
    /\ pc = "idle" /\ caller = "run" /\ runs = 0 /\ payload = "none"
    /\ maxConcurrent = 0 /\ changedSpecs = <<>> /\ videoRoot = NullV
    /\ uploadWarnings = <<>> /\ matched = <<>> /\ index = 0 /\ workers = <<>>
    /\ results = <<>> /\ outcome = <<>> /\ resolved = <<>> /\ uploadState = "none"
    /\ storeCalls = 0 /\ store \in stores
    /\ runResults = <<>> /\ page = 0 /\ body = <<>> /\ target = 0
    /\ hostCalls = <<>> /\ upsertState = "none"
    /\ comments \in histories
    /\ comments0 = <<>>
    /\ nextId = FirstId + Len(comments) /\ envAdded = 0
    /\ outputs = <<>> /\ failed = <<>> /\ log = <<>>
    /\ diffState = "none" /\ rejection = NullV
    /\ cleanStart = (\A i \in 1..Len(comments) : ~HasMarker(comments[i]))

Init == InitWith(RunHistories, Stores) /\ unitCall = NullV
InitUpsert == InitWith(UpsertHistories, { {} }) /\ unitCall = NullV

(***************************************************************************)
(* run(): setting outputs (main.ts 55-56, 64-65, 73-74).                   *)
(***************************************************************************)
\* JSON.stringify(results)
RECURSIVE JSONItems(_)
JSONItems(res) ==
    IF res = <<>> THEN <<>>
    ELSE <<"{", "spec", ":">> \o Head(res).spec \o <<",", "url", ":">> \o Head(res).url
         \o <<"}">> \o (IF Len(res) > 1 THEN <<",">> ELSE <<>>) \o JSONItems(Tail(res))
JSONStringify(res) == <<"[">> \o JSONItems(res) \o <<"]">>

\* only the first output is set
SetOutputsUrlsOnly(res) ==
    << [name |-> "video-urls", value |-> JSONStringify(res)] >>

\* run: setOutput('video-urls', JSON.stringify(results));
\*      setOutput('videos-uploaded', String(results.length))
SetOutputs(res) ==
    << [name |-> "video-urls", value |-> JSONStringify(res)],
       [name |-> "videos-uploaded", value |-> NumberToString(Len(res))] >>
EmptyOutputs ==
    << [name |-> "video-urls", value |-> <<"[", "]">>],
       [name |-> "videos-uploaded", value |-> <<"0">>] >>

(***************************************************************************)
(* Decisions of the code, as operators.                                    *)
(***************************************************************************)
\* a pool that starts one worker per item, whatever the limit
WorkerCountPerItem(limit, itemCount) == itemCount

\* runWithConcurrency: Math.min(maxConcurrent, items.length) workers
WorkerCount(limit, itemCount) == Min(limit, itemCount)

\* results.push(value): results in completion order
StoreResultPush(res, i, value) == Append(res, value)

\* runWithConcurrency: results[i] = value on the sparse array (i is 0-based)
StoreResult(res, i, value) ==
    IF i + 1 <= Len(res) THEN [res EXCEPT ![i + 1] = value]
    ELSE res \o [k \in 1..(i - Len(res)) |-> HoleV] \o <<value>>

\* uploadVideos: uploaded.filter(r => r !== null); filter skips holes
FilterUploaded(res) == FilterSeq(res, {NullV, HoleV})

\* the pool resolves as soon as one worker has ended
AnyWorkerDone(ws) == \E v \in 1..Len(ws) : ws[v].stage = "done"

\* runWithConcurrency: await Promise.all(workers)
AllWorkersDone(ws) == \A v \in 1..Len(ws) : ws[v].stage = "done"

\* the callback asks for the signed URL whatever the put answered
AfterPutAlwaysPresign(ok) == "presign"

\* uploadVideos callback: await client.send(PutObjectCommand) before
\* getSignedUrl; a rejected put leaves the try block
AfterPut(ok) == IF ok THEN "presign" ELSE "catch"

\* a callback without the try/catch: the error escapes
UploadCallbackRethrows(message) == [caught |-> FALSE, value |-> NullV]

\* uploadVideos: the callback's catch turns an error into a null result
UploadCallbackOnError(message) == [caught |-> TRUE, value |-> NullV]

\* no early return for empty results
ResultsEmptyIgnored(res) == FALSE

\* postOrUpdateComment: if (results.length === 0) return
ResultsEmpty(res) == Len(res) = 0

\* a search that looks at the first page only
ContinuePagingNever(existing, pageLen) == FALSE

\* postOrUpdateComment: after a page of pageLen comments on which find gave
\* existing, does the while loop request another page?
ContinuePaging(existing, pageLen) ==
    /\ pageLen # 0
    /\ ~(pageLen < PerPage)
    /\ existing = NullV

\* postOrUpdateComment: the page counter after a page of pageLen comments
PageAfter(p, pageLen) ==
    IF pageLen # 0 /\ ~(pageLen < PerPage) THEN p + 1 ELSE p

\* always create
WriteOpCreate(existing) == "create"

\* postOrUpdateComment: if (existing) updateComment else createComment
WriteOp(existing) == IF existing # NullV THEN "update" ELSE "create"

\* a failed update falls back to creating a comment
AfterWriteFailedThenCreate(op) == IF op = "update" THEN "create" ELSE "catch"

\* postOrUpdateComment: one try block around the search and the write; a
\* rejected updateComment or createComment goes to the catch
AfterWriteFailed(op) == "catch"

\* no catch around the comment-host calls
UpsertOnErrorEscapes(message) == [caught |-> FALSE]

\* postOrUpdateComment: the catch around the comment-host calls
UpsertOnError(message) == [caught |-> TRUE]

\* a rejected diff is taken for a diff in which one spec changed
AwaitDiffRecovers(d) ==
    [threw |-> FALSE, specs |-> IF d.kind = "throw" THEN <<Sa>> ELSE d.specs]

\* run: const specs = await getChangedSpecs(...); a rejection leaves the try block
AwaitDiff(d) ==
    IF d.kind = "throw" THEN [threw |-> TRUE, specs |-> <<>>]
    ELSE [threw |-> FALSE, specs |-> d.specs]

\* only a missing pull request skips; a fork pull request is processed
SkipsRunNonPrOnly(event) == event = "none"

\* run: if (!pr) return; if (pr.head?.repo?.fork) return
SkipsRun(event) == event = "none" \/ event = "fork"

\* an empty diff is handed to uploadVideos like any other
NoSpecsChangedIgnored(specs) == FALSE

\* run: if (specs.length === 0) { setOutput '[]', '0'; return }
NoSpecsChanged(specs) == Len(specs) = 0

\* run: catch (error) { if (error instanceof Error) core.setFailed(error.message) }
RunCatch(failedCalls, isError, message) ==
    IF isError THEN Append(failedCalls, message) ELSE failedCalls

\* a value thrown or rejected in a stage of run's try block
Rejection(stage, isError, message) ==
    [stage |-> stage, isError |-> isError, message |-> message]

\* run: a rejection of an awaited stage reaches the catch block
RunCatches(stage, isError, message) ==
    /\ failed' = RunCatch(failed, isError, message)
    /\ rejection' = Rejection(stage, isError, message)

(***************************************************************************)
(* Shared continuations.                                                   *)
(***************************************************************************)
ScratchReset ==
    /\ page' = 0 /\ body' = <<>> /\ target' = 0
    /\ hostCalls' = <<>> /\ comments0' = <<>>

\* the invocation is over
Finish(who, ustate, id) ==
    /\ pc' = "idle"
    /\ upsertState' = ustate
    /\ log' = Append(log, [caller |-> who, upsert |-> ustate, id |-> id])

\* postOrUpdateComment returned; run goes on to set its outputs
UpsertReturns(who, res, ustate, id) ==
    /\ Finish(who, ustate, id)
    /\ outputs' = IF who = "run" THEN SetOutputs(res) ELSE outputs
    /\ UNCHANGED <<failed, rejection>>

\* postOrUpdateComment rejected; run's catch handles it
UpsertThrows(who, message) ==
    /\ Finish(who, "failed", 0)
    /\ IF who = "run" THEN RunCatches("comment", TRUE, message)
       ELSE UNCHANGED <<failed, rejection>>
    /\ UNCHANGED outputs

\* a comment-host call rejected inside the try block
HostError(who, res, message) ==
    IF UpsertOnError(message).caught
    THEN UpsertReturns(who, res, "failed", 0)
    ELSE UpsertThrows(who, message)

\* postOrUpdateComment(token, res, header, expirySeconds), up to its first await
EnterUpsert(who, res, hasPr) ==
    IF ResultsEmpty(res) \/ ~hasPr
    THEN /\ UpsertReturns(who, res, "skipped", 0)
         /\ ScratchReset
    ELSE /\ pc' = "list"
         /\ upsertState' = "running"
         /\ body' = buildCommentBody(Header, res, UrlExpirySeconds)
         /\ page' = 1
         /\ target' = 0
         /\ hostCalls' = << [op |-> "list", arg |-> 1] >>
         /\ comments0' = comments
         /\ UNCHANGED <<log, outputs, failed, rejection>>

\* run, from the return of uploadVideos on (main.ts 61-78)
AfterUpload(res) ==
    /\ runResults' = res
    /\ uploadState' = "returned"
    /\ IF Len(res) = 0
       THEN /\ Finish("run", "none", 0)
            /\ outputs' = EmptyOutputs
            /\ ScratchReset
            /\ UNCHANGED <<failed, rejection>>
       ELSE EnterUpsert("run", res, TRUE)

(***************************************************************************)
(* run(): from its start to the await of getChangedSpecs (main.ts 8-52).   *)
(***************************************************************************)
RunStart ==
    \E event \in {"none", "fork", "pr"}, mc \in 0..MaxConcurrentBound :
        /\ pc = "idle"
        /\ runs = 0                      \* the process calls run() once, at its start
        /\ event # "pr" => mc = 0
        /\ runs' = runs + 1
        /\ caller' = "run"
        /\ payload' = event
        /\ maxConcurrent' = mc
        /\ changedSpecs' = <<>> /\ videoRoot' = NullV /\ uploadWarnings' = <<>>
        /\ matched' = <<>> /\ index' = 0 /\ workers' = <<>> /\ results' = <<>>
        /\ outcome' = <<>> /\ resolved' = <<>> /\ uploadState' = "none" /\ storeCalls' = 0
        /\ runResults' = <<>>
        /\ ScratchReset
        /\ outputs' = <<>> /\ failed' = <<>> /\ rejection' = NullV
        /\ IF SkipsRun(event)
           THEN diffState' = "none" /\ Finish("run", "none", 0)
           ELSE pc' = "diff" /\ diffState' = "pending" /\ upsertState' = "none"
                /\ UNCHANGED log
        /\ UNCHANGED <<store, hostVars, cleanStart, unitCall>>

(***************************************************************************)
(* getChangedSpecs settles; run goes on through uploadVideos up to the     *)
(* first awaits of the workers (main.ts 52-61, upload.ts 117-218).         *)
(***************************************************************************)
DiffDone ==
    \E d \in DiffOutcomes, disk \in Disks :
      LET specs == AwaitDiff(d).specs IN
        /\ pc = "diff"
        \* the disk is read only when uploadVideos is reached
        /\ (AwaitDiff(d).threw \/ NoSpecsChanged(specs)) => disk = DiskAbsent
        /\ diffState' = IF d.kind = "throw" THEN "rejected" ELSE "resolved"
        /\ UNCHANGED <<caller, runs, payload, maxConcurrent, store, hostVars, cleanStart, unitCall>>
        /\ changedSpecs' = specs
        /\ IF AwaitDiff(d).threw
           THEN /\ RunCatches("diff", d.isError, d.message)
                /\ Finish("run", "none", 0)
                /\ UNCHANGED <<videoRoot, uploadWarnings, matched, index, workers, results, outcome, resolved,
                               uploadState, storeCalls, runResults, upsertVars, outputs>>
           ELSE IF NoSpecsChanged(specs)
           THEN /\ outputs' = EmptyOutputs
                /\ Finish("run", "none", 0)
                /\ UNCHANGED <<videoRoot, uploadWarnings, matched, index, workers, results, outcome, resolved,
                               uploadState, storeCalls, runResults, upsertVars, failed, rejection>>
           ELSE LET videoMap == collectVideoFiles(disk)
                    m        == IF Len(videoMap) = 0 THEN <<>>
                                ELSE MatchSpecs(specs, videoMap)
                    n        == WorkerCount(maxConcurrent, Len(m))
                IN  /\ videoRoot' = disk
                    /\ uploadWarnings' = DirWarnings(disk) \o
                           (IF Len(videoMap) = 0 THEN <<>>
                            ELSE UnmatchedWarnings(specs, videoMap))
                    /\ matched' = m
                    /\ outcome' = [i \in 1..Len(m) |-> "none"]
                    /\ resolved' = <<>>
                    /\ results' = <<>>
                    /\ IF Len(m) = 0 \/ n <= 0
                       THEN /\ index' = 0 /\ workers' = <<>> /\ storeCalls' = 0
                            /\ AfterUpload(FilterUploaded(<<>>))
                       ELSE /\ index' = n
                            /\ workers' = [w \in 1..n |->
                                            [i |-> w - 1, stage |-> "put",
                                             key |-> ObjectKey(m[w].videoKey)]]
                            /\ storeCalls' = n
                            /\ uploadState' = "running"
                            /\ pc' = "upload"
                            /\ UNCHANGED <<runResults, upsertVars, upsertState,
                                           outputs, failed, rejection, log>>

(***************************************************************************)
(* A worker's awaited callback settles with value (upload.ts 186, 191),    *)
(* the worker stores it and loops (upload.ts 208-211); when the last       *)
(* worker ends, Promise.all resolves and uploadVideos returns (196).       *)
(***************************************************************************)
ItemResolved(w, value, oc) ==
    LET i  == workers[w].i
        r1 == StoreResult(results, i, value)
    IN  /\ results' = r1
        /\ outcome' = [outcome EXCEPT ![i + 1] = oc]
        /\ resolved' = Append(resolved, i)
        /\ IF index < Len(matched)
           THEN /\ workers' = [workers EXCEPT ![w] =
                                   [i |-> index, stage |-> "put",
                                    key |-> ObjectKey(matched[index + 1].videoKey)]]
                /\ index' = index + 1
                /\ storeCalls' = storeCalls + 1
                /\ UNCHANGED <<pc, uploadState, runResults, upsertVars, upsertState,
                               outputs, failed, rejection, log>>
           ELSE LET w1 == [workers EXCEPT ![w].stage = "done"]
                IN  /\ workers' = w1
                    /\ UNCHANGED <<index, storeCalls>>
                    /\ IF AllWorkersDone(w1)
                       THEN AfterUpload(FilterUploaded(r1))
                       ELSE UNCHANGED <<pc, uploadState, runResults, upsertVars,
                                        upsertState, outputs, failed, rejection, log>>

\* the put or the presign of worker w rejected
ItemFailed(w, oc, message) ==
    LET h == UploadCallbackOnError(message)
    IN  IF h.caught
        THEN ItemResolved(w, h.value, oc)
        ELSE \* the rejection reaches Promise.all, uploadVideos and run's catch
             /\ outcome' = [outcome EXCEPT ![workers[w].i + 1] = oc]
             /\ resolved' = Append(resolved, workers[w].i)
             /\ uploadState' = "threw"
             /\ RunCatches("upload", TRUE, message)
             /\ Finish("run", "none", 0)
             /\ UNCHANGED <<index, workers, results, storeCalls, runResults,
                            upsertVars, outputs>>

\* client.send(new PutObjectCommand(...)) of worker w settles
PutDone ==
    \E w \in 1..Len(workers), ok \in BOOLEAN :
        /\ pc = "upload"
        /\ workers[w].stage = "put"
        /\ UNCHANGED <<caller, runs, payload, diffState, maxConcurrent, changedSpecs, videoRoot,
                       uploadWarnings, matched, hostVars, cleanStart, unitCall>>
        /\ IF AfterPut(ok) = "presign"
           THEN /\ store' = IF ok
                             THEN PutObject(store,
                                            StoredObject(workers[w].key,
                                                         matched[workers[w].i + 1].videoKey,
                                                         runs))
                             ELSE store
                /\ workers' = [workers EXCEPT ![w].stage = "presign"]
                /\ storeCalls' = storeCalls + 1
                /\ UNCHANGED <<pc, index, results, outcome, resolved, uploadState, runResults,
                               upsertVars, upsertState, outputs, failed, rejection, log>>
           ELSE /\ ItemFailed(w, "putfail", "put failed")
                /\ UNCHANGED store

\* getSignedUrl(...) of worker w settles
PresignDone ==
    \E w \in 1..Len(workers), ok \in BOOLEAN :
        /\ pc = "upload"
        /\ workers[w].stage = "presign"
        /\ UNCHANGED <<caller, runs, payload, diffState, maxConcurrent, changedSpecs, videoRoot,
                       uploadWarnings, matched, store, hostVars, cleanStart, unitCall>>
        /\ IF ok
           THEN LET it == matched[workers[w].i + 1]
                IN  ItemResolved(w, [spec |-> it.spec,
                                     url |-> SignedUrl(workers[w].key)], "ok")
           ELSE ItemFailed(w, "signfail", "presign failed")

(***************************************************************************)
(* postOrUpdateComment called directly (as a unit test does).              *)
(***************************************************************************)
UpsertCall ==
    \E res \in DirectResults, hasPr \in BOOLEAN :
        /\ pc = "idle"
        /\ runs < MaxRuns
        /\ ResultsEmpty(res) => hasPr
        /\ runs' = runs + 1
        /\ caller' = "direct"
        /\ payload' = "none"
        /\ diffState' = "none"
        /\ maxConcurrent' = 0
        /\ changedSpecs' = <<>> /\ videoRoot' = NullV /\ uploadWarnings' = <<>>
        /\ matched' = <<>> /\ index' = 0 /\ workers' = <<>> /\ results' = <<>>
        /\ outcome' = <<>> /\ resolved' = <<>> /\ uploadState' = "none" /\ storeCalls' = 0
        /\ runResults' = res
        /\ outputs' = <<>> /\ failed' = <<>> /\ rejection' = NullV
        /\ IF ResultsEmpty(res) \/ ~hasPr
           THEN /\ Finish("direct", "skipped", 0)
                /\ ScratchReset
           ELSE /\ pc' = "list"
                /\ upsertState' = "running"
                /\ body' = buildCommentBody(Header, res, UrlExpirySeconds)
                /\ page' = 1
                /\ target' = 0
                /\ hostCalls' = << [op |-> "list", arg |-> 1] >>
                /\ comments0' = comments
                /\ UNCHANGED log
        /\ UNCHANGED <<store, hostVars, cleanStart, unitCall>>

(***************************************************************************)
(* listComments settles (comment.ts 66-98).                                *)
(***************************************************************************)
ListDone ==
    \E ok \in BOOLEAN :
        /\ pc = "list"
        /\ UNCHANGED <<caller, runs, payload, diffState, uploadVars, runResults, body, comments0,
                       hostVars, cleanStart, unitCall>>
        /\ IF ~ok
           THEN /\ HostError(caller, runResults, "list failed")
                /\ UNCHANGED <<page, target, hostCalls>>
           ELSE LET pageItems == ListPage(comments, page)
                    existing  == IF Len(pageItems) = 0 THEN NullV
                                 ELSE FindMarked(pageItems)
                    nextPage  == PageAfter(page, Len(pageItems))
                IN  /\ page' = nextPage
                    /\ UNCHANGED <<upsertState, outputs, failed, rejection, log>>
                    /\ IF ContinuePaging(existing, Len(pageItems))
                       THEN /\ pc' = "list"
                            /\ target' = 0
                            /\ hostCalls' = Append(hostCalls, [op |-> "list", arg |-> nextPage])
                       ELSE IF WriteOp(existing) = "update"
                       THEN /\ pc' = "update"
                            /\ target' = existing.id
                            /\ hostCalls' = Append(hostCalls, [op |-> "update", arg |-> existing.id])
                       ELSE /\ pc' = "create"
                            /\ target' = 0
                            /\ hostCalls' = Append(hostCalls, [op |-> "create", arg |-> 0])

\* updateComment settles (comment.ts 83-89)
UpdateDone ==
    \E ok \in BOOLEAN :
        /\ pc = "update"
        /\ UNCHANGED <<caller, runs, payload, diffState, uploadVars, runResults, page, body,
                       comments0, nextId, envAdded, cleanStart, unitCall>>
        /\ IF ok
           THEN /\ comments' = UpdateComment(comments, target, body)
                /\ UpsertReturns(caller, runResults, "updated", target)
                /\ UNCHANGED <<target, hostCalls>>
           ELSE IF AfterWriteFailed("update") = "catch"
           THEN /\ UNCHANGED <<comments, target, hostCalls>>
                /\ HostError(caller, runResults, "update failed")
           ELSE /\ pc' = "create"
                /\ target' = 0
                /\ hostCalls' = Append(hostCalls, [op |-> "create", arg |-> 0])
                /\ UNCHANGED <<comments, upsertState, outputs, failed, rejection, log>>

\* createComment settles (comment.ts 91-97)
CreateDone ==
    \E ok \in BOOLEAN :
        /\ pc = "create"
        /\ UNCHANGED <<caller, runs, payload, diffState, uploadVars, runResults, upsertVars,
                       envAdded, cleanStart, unitCall>>
        /\ IF ok
           THEN /\ comments' = Append(comments,
                                      [id |-> nextId, hasBody |-> TRUE, body |-> body])
                /\ nextId' = nextId + 1
                /\ UpsertReturns(caller, runResults, "created", nextId)
           ELSE /\ UNCHANGED <<comments, nextId>>
                /\ HostError(caller, runResults, "create failed")

(***************************************************************************)
(* Another user adds a comment without the marker between two             *)
(* invocations.                                                            *)
(***************************************************************************)
AddUnrelatedComment ==
        /\ pc = "idle"
        /\ runs < MaxRuns
        /\ envAdded < MaxEnvComments
        /\ comments' = Append(comments,
                              [id |-> nextId, hasBody |-> TRUE, body |-> <<TextLine>>])
        /\ nextId' = nextId + 1
        /\ envAdded' = envAdded + 1
        /\ UNCHANGED <<pc, caller, runs, payload, diffState, uploadVars, runResults, upsertVars,
                       upsertState, outputs, failed, rejection, log, cleanStart, unitCall>>

(***************************************************************************)
(* Specifications.  Spec: invocations of run() and direct upserts on a     *)
(* pull request with a short history.  SpecUpsert: direct upserts on       *)
(* histories spanning several pages.  SpecUnit, SpecPool and SpecRace      *)
(* (below): direct calls of single functions, and two upserts at once.     *)
(***************************************************************************)
NextUpsert ==
    \/ UpsertCall
    \/ ListDone
    \/ UpdateDone
    \/ CreateDone
    \/ AddUnrelatedComment

Next ==
    \/ RunStart
    \/ DiffDone
    \/ PutDone
    \/ PresignDone
    \/ UpsertCall
    \/ ListDone
    \/ UpdateDone
    \/ CreateDone
    \/ AddUnrelatedComment

Spec == Init /\ [][Next]_vars
SpecUpsert == InitUpsert /\ [][NextUpsert]_vars

(***************************************************************************)
(* Direct calls of the exported functions findMatchingVideo and            *)
(* collectVideoFiles, as the unit tests make them.                         *)
(***************************************************************************)
\* sequences of up to n distinct elements of S
RECURSIVE DistinctSeqs(_, _)
DistinctSeqs(S, n) ==
    IF n = 0 THEN { <<>> }
    ELSE LET shorter == DistinctSeqs(S, n - 1)
         IN  shorter \cup
             { Append(qx[1], qx[2]) :
                 qx \in { r \in shorter \X S :
                            \A i \in 1..Len(r[1]) : r[1][i] # r[2] } }

\* video keys; the empty key is that of a file named ".mp4" in the video root
VideoKeys == { <<>>, <<"l">>, <<"a", "/", "l">>, <<"x", "l">>, <<"o">>, Sa }

\* the entry collectVideoFiles makes for the file with this key
MapEntry(videoKey) ==
    [videoKey |-> videoKey, videoPath |-> PathJoin(VideoDir, videoKey \o Mp4)]

\* maps of up to MaxMapLen entries with distinct keys, in every insertion order
VideoMaps ==
    { [i \in 1..Len(ks) |-> MapEntry(ks[i])] : ks \in DistinctSeqs(VideoKeys, MaxMapLen) }

\* spec paths a caller may pass, the empty string and a path ending in a
\* separator among them
SpecPaths == { Sa, Sl, So, Sx, <<>>, <<"e", "/">>, <<"l">>, <<"a", "/", "l">> }

\* directory entries: regular files, symbolic links and directories, a
\* directory and a link named like a video among them
SubDirs ==
    { <<>>, << File(<<"l">> \o Mp4) >>,
      << Link(<<"m">> \o Mp4), File(<<"n">> \o Mp4) >>,
      << Dir(<<"b">>, << File(<<"l">> \o Mp4) >>), File(<<"r", ".", "j">>) >> }
RootEntries ==
    { File(<<"l">> \o Mp4), File(<<"r", ".", "j">>), File(Mp4), Link(<<"k">> \o Mp4),
      Dir(<<"d">> \o Mp4, << File(<<"l">> \o Mp4) >>) }
    \cup { Dir(<<"a">>, sub) : sub \in SubDirs }
\* video roots: absent, or up to MaxDirEntries entries with distinct names
VideoRoots ==
    { DiskAbsent } \cup
    { [exists |-> TRUE, entries |-> es] :
        es \in { q \in DistinctSeqs(RootEntries, MaxDirEntries) :
                   \A i, j \in 1..Len(q) : q[i].name = q[j].name => i = j } }

UnitCalls ==
    { [fn |-> "findMatchingVideo", args |-> [specPath |-> sp, videoMap |-> m],
       returned |-> FALSE, value |-> NullV] : sp \in SpecPaths, m \in VideoMaps }
    \cup
    { [fn |-> "collectVideoFiles", args |-> [videoDir |-> root],
       returned |-> FALSE, value |-> NullV] : root \in VideoRoots }

\* expiries handed to buildCommentBody, in seconds: whole hours, halves of
\* an hour and values on both sides of them
ExpirySeconds == {0, 1799, 1800, 3000, 3600, 5400, 9000, UrlExpirySeconds}

BodyCalls ==
    { [fn |-> "buildCommentBody",
       args |-> [header |-> h, results |-> res, expirySeconds |-> e, inline |-> md],
       returned |-> FALSE, value |-> NullV] :
        h \in {Header, ""}, res \in DirectResults, e \in ExpirySeconds,
        md \in {"undefined", "true", "false"} }

\* diff.ts: minimatch(filename, pattern) for a pattern of the form dir/**
\* and file names without empty or dot segments: the name lies below dir
minimatch(filename, pattern) ==
    LET prefix == SubSeq(pattern, 1, Len(pattern) - 2)
    IN  /\ EndsWith(pattern, <<"/", "*", "*">>)
        /\ Len(filename) > Len(prefix)
        /\ SubSeq(filename, 1, Len(prefix)) = prefix

\* a filter that forgets the status of the file
KeepFileAnyStatus(file, pattern) == minimatch(file.filename, pattern)

\* getChangedSpecs: if (file.status === 'removed') continue;
\*                  if (minimatch(file.filename, specPattern)) files.push(...)
KeepFile(file, pattern) ==
    file.status # "removed" /\ minimatch(file.filename, pattern)

\* the k-th file of a pull-request diff as the provider lists it: specs
\* below e/ and files elsewhere, added, modified, renamed and removed
DiffFile(k) ==
    LET kind == k % 6
        dir  == CASE kind \in {0, 1, 5} -> <<"e", "/">>
                  [] kind = 2 -> <<"s", "/", "e", "/">>
                  [] kind = 3 -> <<"e", "/", "a", "/">>
                  [] OTHER    -> <<"e", "x", "/">>
    IN  [filename |-> dir \o NumberToString(k),
         status |-> CASE kind \in {0, 2} -> "removed"
                      [] kind \in {1, 4} -> "added"
                      [] kind = 3 -> "modified"
                      [] OTHER    -> "renamed"]

\* diffs of up to 3050 files, around the page size and the 30-page limit
DiffCalls ==
    { [fn |-> "getChangedSpecs",
       args |-> [hasPr |-> hp, diff |-> [k \in 1..n |-> DiffFile(k)],
                 specPattern |-> <<d, "/", "*", "*">>],
       pc |-> "start", page |-> 0, files |-> <<>>, requests |-> 0, warnings |-> 0,
       returned |-> FALSE, value |-> NullV] :
        hp \in BOOLEAN, n \in {0, 1, 99, 100, 101, 250, 3000, 3050},
        d \in {"e", "s"} }

InitUnit ==
    /\ InitWith({ History(0, {}) }, { {} })
    /\ unitCall \in UnitCalls \cup BodyCalls \cup DiffCalls

CallFindMatchingVideo ==
    /\ unitCall.fn = "findMatchingVideo" /\ ~unitCall.returned
    /\ unitCall' = [unitCall EXCEPT
                       !.returned = TRUE,
                       !.value = findMatchingVideo(unitCall.args.specPath,
                                                   unitCall.args.videoMap)]
    /\ UNCHANGED runVars

CallCollectVideoFiles ==
    /\ unitCall.fn = "collectVideoFiles" /\ ~unitCall.returned
    /\ unitCall' = [unitCall EXCEPT
                       !.returned = TRUE,
                       !.value = collectVideoFiles(unitCall.args.videoDir)]
    /\ UNCHANGED runVars

CallBuildCommentBody ==
    /\ unitCall.fn = "buildCommentBody" /\ ~unitCall.returned
    /\ unitCall' = [unitCall EXCEPT
                       !.returned = TRUE,
                       !.value = buildCommentBodyWithMode(
                                     unitCall.args.header, unitCall.args.results,
                                     unitCall.args.expirySeconds, unitCall.args.inline)]
    /\ UNCHANGED runVars

\* getChangedSpecs(token, specPattern) up to its first await (diff.ts 97-121)
CallGetChangedSpecs ==
    /\ unitCall.fn = "getChangedSpecs" /\ unitCall.pc = "start"
    /\ unitCall' =
           IF ~unitCall.args.hasPr
           THEN [unitCall EXCEPT !.pc = "done", !.warnings = 1,
                                 !.returned = TRUE, !.value = <<>>]
           ELSE [unitCall EXCEPT !.pc = "listing", !.page = 1, !.requests = 1]
    /\ UNCHANGED runVars

\* listFiles resolves with a page of the diff; the loop keeps the wanted
\* files and requests the next page or returns (diff.ts 115-146)
ListFilesDone ==
    /\ unitCall.fn = "getChangedSpecs" /\ unitCall.pc = "listing"
    /\ LET diff  == unitCall.args.diff
           data  == SubSeq(diff, (unitCall.page - 1) * DiffPerPage + 1,
                           Min(unitCall.page * DiffPerPage, Len(diff)))
           Keep(file) == KeepFile(file, unitCall.args.specPattern)
           kept  == SelectSeq(data, Keep)
           files == unitCall.files \o [i \in 1..Len(kept) |-> [path |-> kept[i].filename]]
           done(st) == [st EXCEPT !.pc = "done", !.returned = TRUE, !.value = st.files]
       IN  unitCall' =
               IF Len(data) = 0 THEN done(unitCall)
               ELSE IF Len(data) < DiffPerPage
               THEN done([unitCall EXCEPT !.files = files])
               ELSE IF unitCall.page + 1 > MaxDiffPages
               THEN done([unitCall EXCEPT !.files = files, !.page = @ + 1,
                                          !.warnings = @ + 1])
               ELSE [unitCall EXCEPT !.files = files, !.page = @ + 1,
                                     !.requests = @ + 1]
    /\ UNCHANGED runVars

NextUnit ==
    \/ CallFindMatchingVideo
    \/ CallCollectVideoFiles
    \/ CallBuildCommentBody
    \/ CallGetChangedSpecs
    \/ ListFilesDone

SpecUnit == InitUnit /\ [][NextUnit]_vars

(***************************************************************************)
(* runWithConcurrency called directly on a list of items, with a callback  *)
(* that stays pending until the store answers (upload.ts 199-220).  The    *)
(* call's state is held in unitCall: index, workers, results of the code,  *)
(* and per index the number of times it was claimed and its slot written.  *)
(***************************************************************************)
\* the value the callback resolves with for an item
Uploaded(item) == [item |-> item]

PoolCalls ==
    { [fn |-> "runWithConcurrency",
       args |-> [items |-> [k \in 1..n |-> k], maxConcurrent |-> limit],
       started |-> FALSE, index |-> 0, workers |-> <<>>, results |-> <<>>,
       claims |-> [k \in 1..n |-> 0], writes |-> [k \in 1..n |-> 0],
       returned |-> FALSE, value |-> <<>>] :
        n \in 0..PoolItems, limit \in 0..PoolLimit }

\* a claim that hands out the item before the cursor again
ClaimNextRepeat(idx) == [i |-> IF idx > 0 THEN idx - 1 ELSE idx, next |-> idx + 1]

\* worker: const i = index++
ClaimNext(idx) == [i |-> idx, next |-> idx + 1]

SetWorker(ws, w, rec) ==
    IF w > Len(ws) THEN Append(ws, rec) ELSE [ws EXCEPT ![w] = rec]

\* a worker that takes one item and ends
WorkerLoopOnce(st, w) ==
    IF w > Len(st.workers) /\ st.index < Len(st.args.items)
    THEN LET c == ClaimNext(st.index)
         IN  [st EXCEPT !.index = c.next,
                        !.workers = SetWorker(@, w, [i |-> c.i, stage |-> "await"]),
                        !.claims[c.i + 1] = @ + 1]
    ELSE [st EXCEPT !.workers = SetWorker(@, w, [i |-> 0, stage |-> "done"])]

\* worker w from the test of its while loop to the await of fn(items[i]), or
\* to its end when the cursor is exhausted
WorkerLoop(st, w) ==
    IF st.index < Len(st.args.items)
    THEN LET c == ClaimNext(st.index)
         IN  [st EXCEPT !.index = c.next,
                        !.workers = SetWorker(@, w, [i |-> c.i, stage |-> "await"]),
                        !.claims[c.i + 1] = @ + 1]
    ELSE [st EXCEPT !.workers = SetWorker(@, w, [i |-> 0, stage |-> "done"])]

\* Array.from({ length }, () => worker()): the workers start one after another
RECURSIVE PoolSpawn(_, _)
PoolSpawn(st, count) ==
    IF Len(st.workers) >= count THEN st
    ELSE PoolSpawn(WorkerLoop(st, Len(st.workers) + 1), count)

\* await Promise.all(workers); return results
PoolSettle(st) ==
    IF ~st.returned /\ AllWorkersDone(st.workers)
    THEN [st EXCEPT !.returned = TRUE, !.value = st.results]
    ELSE st

InitPool == InitWith({ History(0, {}) }, { {} }) /\ unitCall \in PoolCalls

\* runWithConcurrency(items, maxConcurrent, fn) up to await Promise.all
PoolStart ==
    /\ unitCall.fn = "runWithConcurrency" /\ ~unitCall.started
    /\ unitCall' = PoolSettle(PoolSpawn([unitCall EXCEPT !.started = TRUE],
                                        WorkerCount(unitCall.args.maxConcurrent,
                                                    Len(unitCall.args.items))))
    /\ UNCHANGED runVars

\* the callback awaited by worker w resolves: the worker stores the value
\* and goes round its loop
PoolItemResolved(w) ==
    /\ unitCall.fn = "runWithConcurrency" /\ unitCall.started
    /\ w \in 1..Len(unitCall.workers)
    /\ unitCall.workers[w].stage = "await"
    /\ LET i  == unitCall.workers[w].i
           s1 == [unitCall EXCEPT
                     !.results = StoreResult(@, i, Uploaded(unitCall.args.items[i + 1])),
                     !.writes[i + 1] = @ + 1]
       IN  unitCall' = PoolSettle(WorkerLoop(s1, w))
    /\ UNCHANGED runVars

NextPool ==
    \/ PoolStart
    \/ \E w \in 1..PoolItems : PoolItemResolved(w)

SpecPool == InitPool /\ [][NextPool]_vars

(***************************************************************************)
(* Two invocations of postOrUpdateComment on the same pull request at the  *)
(* same time (two workflow runs).  The first is the invocation of the      *)
(* actions above; the locals of the second are held in unitCall, and its   *)
(* steps are the same code (comment.ts 41-104) acting on the same comment  *)
(* host.                                                                   *)
(***************************************************************************)
InitRace ==
    /\ InitWith({ History(0, {}), History(2, {}), History(PerPage, {}) }, { {} })
    /\ unitCall = [fn |-> "postOrUpdateComment", pc |-> "start", page |-> 0,
                   target |-> 0, body |-> <<>>, state |-> "none"]

\* the second invocation up to its first listComments request
OtherCall ==
    \E res \in DirectResults :
        /\ unitCall.pc = "start"
        /\ ~ResultsEmpty(res)
        /\ unitCall' = [unitCall EXCEPT
                           !.pc = "list", !.page = 1, !.state = "running",
                           !.body = buildCommentBody(Header, res, UrlExpirySeconds)]
        /\ UNCHANGED runVars

\* listComments of the second invocation settles
OtherListDone ==
    \E ok \in BOOLEAN :
        /\ unitCall.pc = "list"
        /\ UNCHANGED runVars
        /\ IF ~ok
           THEN /\ UpsertOnError("list failed").caught
                /\ unitCall' = [unitCall EXCEPT !.pc = "done", !.state = "failed"]
           ELSE LET pageItems == ListPage(comments, unitCall.page)
                    existing  == IF Len(pageItems) = 0 THEN NullV
                                 ELSE FindMarked(pageItems)
                IN  unitCall' =
                        [unitCall EXCEPT
                            !.page = PageAfter(@, Len(pageItems)),
                            !.pc = IF ContinuePaging(existing, Len(pageItems)) THEN "list"
                                   ELSE WriteOp(existing),
                            !.target = IF existing = NullV THEN 0 ELSE existing.id]

\* updateComment or createComment of the second invocation settles
OtherWriteDone ==
    \E ok \in BOOLEAN :
        /\ unitCall.pc \in {"update", "create"}
        /\ UNCHANGED <<pc, caller, runs, payload, diffState, uploadVars, runResults,
                       upsertVars, upsertState, envAdded, outputs, failed, rejection,
                       log, cleanStart>>
        /\ IF ~ok
           THEN /\ UpsertOnError("write failed").caught
                /\ unitCall' = [unitCall EXCEPT !.pc = "done", !.state = "failed"]
                /\ UNCHANGED <<comments, nextId>>
           ELSE IF unitCall.pc = "update"
           THEN /\ comments' = UpdateComment(comments, unitCall.target, unitCall.body)
                /\ unitCall' = [unitCall EXCEPT !.pc = "done", !.state = "updated"]
                /\ UNCHANGED nextId
           ELSE /\ comments' = Append(comments, [id |-> nextId, hasBody |-> TRUE,
                                                 body |-> unitCall.body])
                /\ nextId' = nextId + 1
                /\ unitCall' = [unitCall EXCEPT !.pc = "done", !.state = "created",
                                                !.target = nextId]

NextRace ==
    \/ UpsertCall
    \/ ListDone
    \/ UpdateDone
    \/ CreateDone
    \/ OtherCall
    \/ OtherListDone
    \/ OtherWriteDone

SpecRace == InitRace /\ [][NextRace]_vars

TypeOK ==
    /\ pc \in {"idle", "diff", "upload", "list", "update", "create"}
    /\ caller \in {"run", "direct"}
    /\ runs \in 0..MaxRuns
    /\ index \in 0..Len(matched)
    /\ uploadState \in {"none", "running", "returned", "threw"}
    /\ upsertState \in {"none", "skipped", "running", "created", "updated", "failed"}
    /\ Len(log) <= runs
    /\ payload \in {"none", "fork", "pr"}
    /\ diffState \in {"none", "pending", "resolved", "rejected"}
    /\ rejection = NullV \/ rejection.stage \in {"diff", "upload", "comment"}

(***************************************************************************)
(* Properties of the upload stage.                                         *)
(***************************************************************************)
\* uploads in flight: callbacks started and not yet settled
InFlight ==
    Cardinality({w \in 1..Len(workers) : workers[w].stage \in {"put", "presign"}})

\* the results of the matched items whose upload succeeded, in input order
RECURSIVE SuccessesFrom(_)
SuccessesFrom(i) ==
    IF i > Len(matched) THEN <<>>
    ELSE (IF outcome[i] = "ok"
          THEN << Result(matched[i].spec, matched[i].videoKey) >>
          ELSE <<>>) \o SuccessesFrom(i + 1)
ExpectedResults == SuccessesFrom(1)

SomeItemFailed == \E i \in 1..Len(outcome) : outcome[i] \in {"putfail", "signfail"}
AllItemsResolved == \A i \in 1..Len(outcome) : outcome[i] # "none"
OutOfOrder == \E a, b \in 1..Len(resolved) : a < b /\ resolved[a] > resolved[b]

\* C1: in every state of the orchestration the number of uploads in flight
\* is at most the concurrency limit and at most the number of matches.
C1_InFlightBounded ==
    /\ InFlight <= maxConcurrent
    /\ InFlight <= Len(matched)

\* the pool is saturated below the item count and a worker has gone on to
\* a further item after a completion
C1_Witness ==
    /\ pc = "upload"
    /\ maxConcurrent < Len(matched)
    /\ InFlight = maxConcurrent
    /\ index > maxConcurrent
    /\ resolved # <<>>

\* C2: whatever the completion order, uploadVideos returns exactly the
\* successful items in input order, without placeholders for failures.
C2_ResultIsOrderedSuccesses ==
    uploadState = "returned" =>
        /\ runResults = ExpectedResults
        /\ Len(runResults) = Cardinality({i \in 1..Len(outcome) : outcome[i] = "ok"})

\* items resolved out of input order, one failed, two succeeded
C2_Witness ==
    /\ uploadState = "returned"
    /\ OutOfOrder
    /\ SomeItemFailed
    /\ Len(runResults) = 2

\* C3: a failed put or presign never aborts the orchestration: every other
\* item is still resolved and uploadVideos returns normally.
C3_FailureIsolated ==
    /\ uploadState # "threw"
    /\ (uploadState = "returned" /\ SomeItemFailed) =>
          (AllItemsResolved /\ failed = <<>>)

\* the first item failed and items claimed after the failure succeeded
C3_Witness ==
    /\ uploadState = "returned"
    /\ Len(matched) = 3
    /\ maxConcurrent = 1
    /\ outcome[1] = "putfail"
    /\ outcome[2] = "signfail"
    /\ outcome[3] = "ok"

\* C4: for any configured concurrency limit and non-empty matches, when
\* uploadVideos returns every matched item has been attempted and resolved.
C4_AllProcessedAtReturn ==
    (uploadState = "returned" /\ Len(matched) > 0) => AllItemsResolved

(***************************************************************************)
(* Properties of the comment stage.                                        *)
(***************************************************************************)
MarkedPositions(cs) == {i \in 1..Len(cs) : HasMarker(cs[i])}
MarkedCount(cs) == Cardinality(MarkedPositions(cs))
FirstMarked(cs) ==
    LET m == MarkedPositions(cs)
    IN  IF m = {} THEN 0 ELSE CHOOSE i \in m : \A j \in m : i <= j

CallsOf(ops) == {k \in 1..Len(hostCalls) : hostCalls[k].op \in ops}
ListCalls == Cardinality(CallsOf({"list"}))
WriteCalls == Cardinality(CallsOf({"create", "update"}))

\* the comments the list calls issued so far return
ListedUpTo == Min(ListCalls * PerPage, Len(comments0))
SomeListedMarked == \E i \in 1..ListedUpTo : HasMarker(comments0[i])

UpsertSucceeded == pc = "idle" /\ upsertState \in {"created", "updated"}
UpsertEntered == upsertState \in {"running", "created", "updated", "failed"}

\* the page on which the search of a history must stop, its first marked
\* comment being at position first (0: none)
StopPage(first, len) ==
    IF first > 0
    THEN (first + PerPage - 1) \div PerPage
    ELSE (len \div PerPage) + 1

\* C5: with non-empty results and no host error, postOrUpdateComment makes
\* exactly one write, as its last call: updateComment if a listed comment
\* carries the marker, createComment otherwise; never more than one write.
C5_ExactlyOneWrite ==
    /\ WriteCalls <= 1
    /\ UpsertSucceeded =>
          /\ WriteCalls = 1
          /\ hostCalls[Len(hostCalls)].op = (IF SomeListedMarked THEN "update" ELSE "create")
          /\ upsertState = (IF SomeListedMarked THEN "updated" ELSE "created")

\* an update after a search over more than one page
C5_Witness ==
    /\ UpsertSucceeded
    /\ upsertState = "updated"
    /\ ListCalls >= 2

\* C6 as stated: after a successful upsert, for every prior history, at
\* most one comment carries the marker.
C6_AtMostOneMarkedAnyHistory ==
    UpsertSucceeded => MarkedCount(comments) <= 1

\* C6 amended: if the prior history carries at most one marked comment,
\* then after a successful upsert at most one comment carries the marker.
C6_AtMostOneMarked ==
    (UpsertSucceeded /\ MarkedCount(comments0) <= 1) => MarkedCount(comments) <= 1

\* the one marked comment of the prior history lies beyond the first page
C6_Witness ==
    /\ UpsertSucceeded
    /\ MarkedCount(comments0) = 1
    /\ FirstMarked(comments0) > PerPage
    /\ MarkedCount(comments) = 1

\* C7: from a history without a marked comment, after n >= 1 successful
\* upserts with non-empty results (unrelated comments may be added in
\* between) exactly one marked comment exists, the first upsert created it,
\* every later one updated that same id, and it carries the latest body.
C7_UpsertIdempotent ==
    ( /\ cleanStart
      /\ pc = "idle"
      /\ Len(log) >= 1
      /\ \A k \in 1..Len(log) : log[k].upsert \in {"created", "updated"} ) =>
        /\ MarkedCount(comments) = 1
        /\ log[1].upsert = "created"
        /\ \A k \in 2..Len(log) : log[k].upsert = "updated" /\ log[k].id = log[1].id
        /\ \E i \in 1..Len(comments) :
              /\ comments[i].id = log[1].id
              /\ comments[i].hasBody
              /\ comments[i].body = buildCommentBody(Header, runResults, UrlExpirySeconds)

\* two upserts, an unrelated comment in between, the marked comment on
\* the second page
C7_Witness ==
    /\ cleanStart
    /\ pc = "idle"
    /\ Len(log) = 2
    /\ \A k \in 1..Len(log) : log[k].upsert \in {"created", "updated"}
    /\ envAdded >= 1
    /\ FirstMarked(comments) > PerPage

\* C8: with empty results no comment-host call is made, neither by
\* postOrUpdateComment nor by run, which does not enter the comment stage.
C8_NoHostCallWhenEmpty ==
    Len(runResults) = 0 =>
        /\ hostCalls = <<>>
        /\ pc \notin {"list", "update", "create"}
        /\ upsertState \in {"none", "skipped"}

\* postOrUpdateComment was called with no results and returned
C8_Witness ==
    /\ caller = "direct"
    /\ pc = "idle"
    /\ upsertState = "skipped"
    /\ Len(runResults) = 0
    /\ Len(log) >= 1

\* C9: on a history with a marked comment the only write is updateComment
\* on the first marked comment in listing order, createComment is never
\* called, and the search stops at the page of that comment (or, without a
\* marked comment, at the first empty or short page).
C9_UpdatesFirstMarked ==
    UpsertEntered =>
        LET first == FirstMarked(comments0)
            stop  == StopPage(first, Len(comments0))
        IN  /\ ListCalls <= stop
            /\ WriteCalls > 0 => ListCalls = stop
            /\ first > 0 =>
                  /\ CallsOf({"create"}) = {}
                  /\ \A k \in CallsOf({"update"}) :
                        hostCalls[k].arg = comments0[first].id

\* two marked comments, the first of them on a later page
C9_Witness ==
    /\ UpsertSucceeded
    /\ MarkedCount(comments0) = 2
    /\ FirstMarked(comments0) > PerPage
    /\ upsertState = "updated"

\* C10: a comment-host failure does not fail the run: setFailed is not
\* called and both outputs are set from the uploaded results.
C10_HostFailureNotFatal ==
    (caller = "run" /\ pc = "idle" /\ upsertState = "failed") =>
        /\ failed = <<>>
        /\ outputs = << [name |-> "video-urls", value |-> JSONStringify(ExpectedResults)],
                        [name |-> "videos-uploaded",
                         value |-> NumberToString(Len(ExpectedResults))] >>

\* the update of the marked comment failed after two videos were uploaded
C10_Witness ==
    /\ caller = "run"
    /\ pc = "idle"
    /\ upsertState = "failed"
    /\ hostCalls[Len(hostCalls)].op = "update"
    /\ Len(ExpectedResults) = 2

(***************************************************************************)
(* Properties of run(): failures and the order of the stages.              *)
(***************************************************************************)
DiffRejected == caller = "run" /\ diffState = "rejected"
RunOver == caller = "run" /\ runs > 0 /\ pc = "idle"

\* C11: if getChangedSpecs rejects, the run aborts before any upload or
\* comment work: no put or presign is issued and no comment-host call is
\* made in that run.
C11_DiffFailureAborts ==
    DiffRejected =>
        /\ pc = "idle"
        /\ videoRoot = NullV /\ matched = <<>> /\ uploadState = "none"
        /\ storeCalls = 0 /\ (\A o \in store : o.run < runs)
        /\ hostCalls = <<>> /\ upsertState = "none"
        /\ outputs = <<>>

\* the diff rejected with an Error and the run is over
C11_Witness ==
    /\ DiffRejected /\ RunOver
    /\ rejection # NullV /\ rejection.stage = "diff" /\ rejection.isError

\* C12: whenever a stage of run throws or rejects, with an Error or with a
\* non-Error value such as a string, setFailed is called exactly once with
\* the underlying message.
C12_RejectionSignalsFailure ==
    (RunOver /\ rejection # NullV) => failed = << rejection.message >>

\* C13: only a diff-retrieval failure is run-fatal: an unmatched spec, an
\* absent or empty video root, failed puts or presigns (of some or of all
\* items) and a comment-host failure never reach run's catch and never
\* cause setFailed.
C13_OnlyDiffFailureFatal ==
    /\ rejection # NullV => (rejection.stage = "diff" /\ diffState = "rejected")
    /\ failed # <<>> => diffState = "rejected"
    /\ (caller = "run" /\ diffState # "rejected") => failed = <<>>

\* a spec without a video, every upload failed, and the run went on to its end
C13_Witness ==
    /\ RunOver /\ diffState = "resolved"
    /\ Len(matched) = 2 /\ Len(changedSpecs) = 3
    /\ \A i \in 1..Len(outcome) : outcome[i] \in {"putfail", "signfail"}
    /\ \E i \in 1..Len(outcome) : outcome[i] = "putfail"
    /\ \E i \in 1..Len(outcome) : outcome[i] = "signfail"
    /\ failed = <<>>

\* C14: within a run the first comment-host call is made only after every
\* scheduled upload has resolved (none in flight, none unstarted), the first
\* object-store call only after the diff has resolved, and at most one
\* comment-host call is outstanding at any time.
C14_StageOrder ==
    /\ (caller = "run" /\ hostCalls # <<>>) =>
           /\ InFlight = 0 /\ index = Len(matched) /\ AllItemsResolved
           /\ uploadState = "returned"
    /\ (storeCalls > 0 \/ workers # <<>>) => (caller = "run" /\ diffState = "resolved")
    /\ pc \in {"list", "update", "create"} =>
           /\ hostCalls # <<>>
           /\ hostCalls[Len(hostCalls)].op = pc
    /\ (pc \notin {"list", "update", "create"} /\ hostCalls # <<>>) =>
           upsertState \in {"created", "updated", "failed"}

\* three uploads through two workers have resolved and run awaits the second
\* comment-host call
C14_Witness ==
    /\ caller = "run" /\ pc = "update"
    /\ Len(matched) = 3 /\ maxConcurrent = 2
    /\ Len(hostCalls) = 2
    /\ SomeItemFailed

(***************************************************************************)
(* Properties of findMatchingVideo and collectVideoFiles.                  *)
(***************************************************************************)
MatchReturned ==
    unitCall # NullV /\ unitCall.fn = "findMatchingVideo" /\ unitCall.returned
IndexReturned ==
    unitCall # NullV /\ unitCall.fn = "collectVideoFiles" /\ unitCall.returned

\* specPath is k, or ends with a path separator followed by k
MatchCondition(specPath, k) ==
    \/ specPath = k
    \/ /\ Len(specPath) > Len(k)
       /\ specPath[Len(specPath) - Len(k)] \in {"/", PathSep}
       /\ SubSeq(specPath, Len(specPath) - Len(k) + 1, Len(specPath)) = k

\* the result is the longest of the entries at the positions in matching, or
\* absent when there is none
BestOf(matching, videoMap, value) ==
    /\ (value # NullV) <=> (matching # {})
    /\ value # NullV =>
          /\ \E i \in matching : videoMap[i] = value
          /\ \A i \in matching : Len(videoMap[i].videoKey) <= Len(value.videoKey)

\* C15 as stated: findMatchingVideo returns a match iff some key of the index
\* is the spec path or follows a path separator at its end; the match is an
\* entry of the index that satisfies the condition and no matching key is
\* longer; otherwise the result is absent.
C15_MatchIffSomeKeyMatches ==
    MatchReturned =>
        LET specPath == unitCall.args.specPath
            videoMap == unitCall.args.videoMap
        IN  BestOf({ i \in 1..Len(videoMap) : MatchCondition(specPath, videoMap[i].videoKey) },
                   videoMap, unitCall.value)

\* C15 amended: the same for the non-empty keys of the index; the empty key
\* (of a file named ".mp4") is never returned, although an empty spec path
\* and a spec path ending in a separator satisfy the condition for it.
C15_MatchIffNonEmptyKeyMatches ==
    MatchReturned =>
        LET specPath == unitCall.args.specPath
            videoMap == unitCall.args.videoMap
        IN  BestOf({ i \in 1..Len(videoMap) :
                       /\ videoMap[i].videoKey # <<>>
                       /\ MatchCondition(specPath, videoMap[i].videoKey) },
                   videoMap, unitCall.value)

\* a match is returned although the index also holds a key that is a suffix
\* of the spec path starting inside a segment
C15_Witness ==
    /\ MatchReturned /\ unitCall.value # NullV
    /\ \E i \in 1..Len(unitCall.args.videoMap) :
          LET k == unitCall.args.videoMap[i].videoKey
          IN  /\ k # <<>>
              /\ EndsWith(unitCall.args.specPath, k)
              /\ ~MatchCondition(unitCall.args.specPath, k)

\* C16: matching is deterministic: an index holding the same entries in
\* another insertion order gives the same result for the spec path, and two
\* distinct matching keys never have equal length.
C16_OrderIndependent ==
    MatchReturned =>
        LET specPath == unitCall.args.specPath
            videoMap == unitCall.args.videoMap
            n        == Len(videoMap)
        IN  /\ \A f \in Permutations(1..n) :
                  findMatchingVideo(specPath, [i \in 1..n |-> videoMap[f[i]]])
                      = unitCall.value
            /\ \A i, j \in 1..n :
                  ( /\ KeyMatches(specPath, videoMap[i].videoKey)
                    /\ KeyMatches(specPath, videoMap[j].videoKey)
                    /\ Len(videoMap[i].videoKey) = Len(videoMap[j].videoKey) ) => i = j

\* three keys match and the longest was inserted second
C16_Witness ==
    /\ MatchReturned
    /\ Len(unitCall.args.videoMap) = 3
    /\ \A i \in 1..3 : KeyMatches(unitCall.args.specPath, unitCall.args.videoMap[i].videoKey)
    /\ unitCall.value = unitCall.args.videoMap[2]

\* the entries the regular files named *.mp4 below dir should produce
RECURSIVE RegularVideos(_, _)
RegularVideos(dir, entries) ==
    IF entries = <<>> THEN {}
    ELSE LET entry    == Head(entries)
             fullPath == PathJoin(dir, entry.name)
             relative == PathRelative(VideoDir, fullPath)
             here     ==
                 IF entry.kind = "dir" THEN RegularVideos(fullPath, entry.entries)
                 ELSE IF entry.kind = "file" /\ EndsWith(entry.name, Mp4)
                      THEN { [videoKey |-> SubSeq(relative, 1, Len(relative) - Mp4Len),
                              videoPath |-> fullPath] }
                      ELSE {}
         IN  here \cup RegularVideos(dir, Tail(entries))

\* C19: the map collectVideoFiles returns holds exactly one entry per regular
\* file below the video root whose name ends with ".mp4", keyed by the
\* root-relative path without the suffix and valued by the full path;
\* directories, non-regular entries and other files produce no entry.
C19_IndexIsRegularVideoFiles ==
    IndexReturned =>
        LET root   == unitCall.args.videoDir
            videos == unitCall.value
        IN  /\ { videos[i] : i \in 1..Len(videos) }
                  = (IF root.exists THEN RegularVideos(VideoDir, root.entries) ELSE {})
            /\ \A i, j \in 1..Len(videos) :
                  videos[i].videoKey = videos[j].videoKey => i = j

(***************************************************************************)
(* Properties of uploadVideos: matching, the object key and the bucket.    *)
(***************************************************************************)
\* uploadVideos was called in this run: the index it built
UploadCalled == caller = "run" /\ videoRoot # NullV
IndexRead == IF videoRoot = NullV THEN <<>> ELSE collectVideoFiles(videoRoot)

\* some key of the index matches the spec path
HasVideo(specPath, videoMap) ==
    \E j \in 1..Len(videoMap) : MatchCondition(specPath, videoMap[j].videoKey)

\* the spec paths with (want = TRUE) or without a video, in their order
RECURSIVE SpecsByVideo(_, _, _)
SpecsByVideo(specs, videoMap, want) ==
    IF specs = <<>> THEN <<>>
    ELSE (IF HasVideo(Head(specs), videoMap) = want THEN << Head(specs) >> ELSE <<>>)
         \o SpecsByVideo(Tail(specs), videoMap, want)

\* C17: if there is no match, because the video root does not exist, the
\* index is empty or no changed spec matches a key, uploadVideos returns an
\* empty sequence without an error and without any put or presign.
C17_NoMatchNoStoreCall ==
    ( /\ UploadCalled
      /\ \/ ~videoRoot.exists
         \/ IndexRead = <<>>
         \/ SpecsByVideo(changedSpecs, IndexRead, TRUE) = <<>> ) =>
        /\ pc = "idle" /\ uploadState = "returned"
        /\ matched = <<>> /\ runResults = <<>>
        /\ storeCalls = 0 /\ workers = <<>>
        /\ \A o \in store : o.run < runs
        /\ rejection = NullV /\ failed = <<>>

\* videos were found, but none for the changed spec
C17_Witness ==
    /\ UploadCalled /\ RunOver
    /\ videoRoot.exists /\ Len(IndexRead) = 3
    /\ changedSpecs = << Sx >>
    /\ uploadState = "returned" /\ runResults = <<>>

\* the key the README names for a video of pull request 7 of O/R
ExpectedKey(videoKey) ==
    <<"c", "/", "O", "/", "R", "/", "p", "-", "7", "/">> \o videoKey \o <<".", "m", "p", "4">>

\* the put of the item succeeded
PutSucceeded(i) ==
    \/ outcome[i] \in {"ok", "signfail"}
    \/ \E w \in 1..Len(workers) : workers[w].i + 1 = i /\ workers[w].stage = "presign"

\* C18: every put names the key cypress/{owner}/{repo}/pr-{prNumber}/
\* {videoKey}.mp4 and the signed URL is requested for that key; a run that
\* uploads a video again writes the key of the earlier run, so the bucket
\* holds exactly one object per video of the pull request.
C18_OneObjectPerVideo ==
    /\ \A w \in 1..Len(workers) :
          workers[w].stage \in {"put", "presign"} =>
              workers[w].key = ExpectedKey(matched[workers[w].i + 1].videoKey)
    /\ \A i \in 1..Len(results) :
          results[i] \notin {NullV, HoleV} =>
              results[i].url = SignedUrl(ExpectedKey(matched[i].videoKey))
    /\ \A o \in store : o.key = ExpectedKey(o.videoKey)
    /\ \A o1, o2 \in store : o1.videoKey = o2.videoKey => o1 = o2
    /\ \A i \in 1..Len(outcome) :
          PutSucceeded(i) =>
              \E o \in store : o.videoKey = matched[i].videoKey /\ o.run = runs

\* a/l.mp4 of the earlier run was overwritten, l.mp4 of the earlier run is
\* still there, o.mp4 is new
C18_Witness ==
    /\ RunOver /\ Cardinality(store) = 3
    /\ \A i \in 1..Len(outcome) : outcome[i] = "ok"
    /\ \E o \in store : o.videoKey = <<"l">> /\ o.run = 0
    /\ \E o \in store : o.videoKey = <<"a", "/", "l">> /\ o.run = 1
    /\ \E o \in store : o.videoKey = <<"o">> /\ o.run = 1

\* C20: a changed spec without a video is reported and skipped; every other
\* changed spec that matches a key is in the matched list, in the order of
\* the changed specs, and is uploaded (its upload is attempted before
\* uploadVideos returns).
C20_UnmatchedSkippedOthersUploaded ==
    ( /\ UploadCalled /\ IndexRead # <<>>
      /\ SpecsByVideo(changedSpecs, IndexRead, FALSE) # <<>> ) =>
        /\ [i \in 1..Len(matched) |-> matched[i].spec]
              = SpecsByVideo(changedSpecs, IndexRead, TRUE)
        /\ [i \in 1..Len(uploadWarnings) |-> uploadWarnings[i].spec]
              = SpecsByVideo(changedSpecs, IndexRead, FALSE)
        /\ \A i \in 1..Len(matched) :
              /\ matched[i].videoKey = findMatchingVideo(matched[i].spec, IndexRead).videoKey
              /\ matched[i].videoPath = findMatchingVideo(matched[i].spec, IndexRead).videoPath
        /\ uploadState = "returned" => AllItemsResolved

(***************************************************************************)
(* run(): the skips and the outputs.                                       *)
(***************************************************************************)
\* C23: when the event carries no pull request, or the pull request comes
\* from a fork, run returns at once: the diff provider, the video index, the
\* object store and the comment host are never called, and setFailed is not
\* called.
C23_SkipsNonPrAndFork ==
    (caller = "run" /\ runs = 1 /\ payload \in {"none", "fork"}) =>
        /\ pc = "idle"
        /\ diffState = "none"
        /\ videoRoot = NullV /\ uploadState = "none" /\ storeCalls = 0
        /\ hostCalls = <<>> /\ upsertState = "none"
        /\ outputs = <<>> /\ failed = <<>>

C23_Witness ==
    /\ caller = "run" /\ runs = 1 /\ payload = "fork"
    /\ Len(log) = 1 /\ store = PriorStore

\* C24: when getChangedSpecs resolves with no changed spec, run returns
\* without uploadVideos (no video index read, no store call) and without
\* postOrUpdateComment, with outputs video-urls '[]' and videos-uploaded '0'.
C24_NoSpecsNoUploadNoComment ==
    (caller = "run" /\ diffState = "resolved" /\ changedSpecs = <<>>) =>
        /\ pc = "idle"
        /\ videoRoot = NullV /\ uploadState = "none" /\ storeCalls = 0
        /\ hostCalls = <<>> /\ upsertState = "none"
        /\ failed = <<>>
        /\ outputs = << [name |-> "video-urls", value |-> <<"[", "]">>],
                        [name |-> "videos-uploaded", value |-> <<"0">>] >>

C24_Witness ==
    /\ caller = "run" /\ payload = "pr" /\ diffState = "resolved"
    /\ changedSpecs = <<>> /\ Len(log) = 1

\* C25: whenever a run has set outputs it has set exactly the two of them,
\* video-urls then videos-uploaded; video-urls is the JSON text of the
\* sequence uploadVideos returned (of the empty sequence when uploadVideos
\* was not reached) and videos-uploaded is the text of its length.
C25_OutputsAreUploadResults ==
    (caller = "run" /\ outputs # <<>>) =>
        LET returned == IF uploadState = "returned" THEN FilterUploaded(results)
                        ELSE <<>>
        IN  /\ Len(outputs) = 2
            /\ outputs[1].name = "video-urls"
            /\ outputs[2].name = "videos-uploaded"
            /\ uploadState \in {"none", "returned"}
            /\ outputs[1].value = JSONStringify(returned)
            /\ outputs[2].value = NumberToString(Len(returned))

C25_Witness ==
    /\ caller = "run" /\ outputs # <<>> /\ uploadState = "returned"
    /\ Len(FilterUploaded(results)) = 2
    /\ \E i \in 1..Len(results) : results[i] = NullV

(***************************************************************************)
(* The worker pool, called directly.                                       *)
(***************************************************************************)
\* callbacks started and not yet settled
PoolInFlight ==
    Cardinality({w \in 1..Len(unitCall.workers) : unitCall.workers[w].stage = "await"})

PoolOf(n, limit) ==
    /\ unitCall.started
    /\ Len(unitCall.args.items) = n /\ unitCall.args.maxConcurrent = limit

\* C21 as stated: with 7 items and a limit of 5, at every instant between
\* the start of the pool and its return exactly 5 callbacks are in flight.
C21_ExactlyFiveAtAnyInstant ==
    (PoolOf(7, 5) /\ ~unitCall.returned) => PoolInFlight = 5

\* C21: with 7 items and a limit of 5, never more than 5 callbacks are in
\* flight, exactly 5 are in flight as long as an item is unclaimed, and the
\* pool returns the 7 results in the order of the items.
C21_FiveInFlightSevenInOrder ==
    PoolOf(7, 5) =>
        /\ PoolInFlight <= 5
        /\ (unitCall.index < 7 => PoolInFlight = 5)
        /\ (unitCall.returned =>
               unitCall.value = [k \in 1..7 |-> Uploaded(unitCall.args.items[k])])

C21_Witness ==
    /\ PoolOf(7, 5) /\ unitCall.returned
    /\ Len(unitCall.value) = 7

\* C22: the pool starts min(limit, item count) workers; a worker ends only
\* when the cursor is exhausted; so while an item is unclaimed the number of
\* callbacks in flight is min(limit, item count).
C22_MinWorkersLoopUntilExhausted ==
    unitCall.started =>
        LET n == Len(unitCall.args.items)
            limit == unitCall.args.maxConcurrent
            m == IF limit < n THEN limit ELSE n
        IN  /\ Len(unitCall.workers) = m
            /\ \A w \in 1..Len(unitCall.workers) :
                   unitCall.workers[w].stage = "done" => unitCall.index >= n
            /\ (unitCall.index < n => PoolInFlight = m)

C22_Witness ==
    /\ unitCall.started /\ ~unitCall.returned
    /\ Len(unitCall.args.items) = 6 /\ unitCall.args.maxConcurrent = 2
    /\ unitCall.index = 4 /\ PoolInFlight = 2

\* C30: in every interleaving each index below the cursor has been claimed
\* exactly once and no other index at all, two workers never hold the same
\* index, no slot is written twice, and when a pool with at least one worker
\* returns every index was claimed once and every slot written once with
\* the value of its item.
C30_EachIndexClaimedOnce ==
    unitCall.started =>
        LET n == Len(unitCall.args.items)
            ws == unitCall.workers
        IN  /\ \A k \in 1..n :
                   /\ unitCall.claims[k] = (IF k <= unitCall.index THEN 1 ELSE 0)
                   /\ unitCall.writes[k] <= unitCall.claims[k]
            /\ \A v, w \in 1..Len(ws) :
                   (ws[v].stage = "await" /\ ws[w].stage = "await" /\ ws[v].i = ws[w].i)
                       => v = w
            /\ (unitCall.returned /\ Len(ws) > 0) =>
                   /\ \A k \in 1..n : unitCall.claims[k] = 1 /\ unitCall.writes[k] = 1
                   /\ unitCall.value = [k \in 1..n |-> Uploaded(unitCall.args.items[k])]

C30_Witness ==
    /\ unitCall.started /\ unitCall.returned
    /\ Len(unitCall.args.items) = 5 /\ Len(unitCall.workers) = 3
    /\ \A k \in 1..5 : unitCall.writes[k] = 1

(***************************************************************************)
(* buildCommentBody, called directly.                                      *)
(***************************************************************************)
BodyReturned == unitCall.fn = "buildCommentBody" /\ unitCall.returned

\* C27: the last line of the body is "> Videos expire h hours after upload."
\* where h is a whole number nearest to expirySeconds / 3600 in decimal
\* digits and the word is "hours" for every h: 72 for 259200, 1 for 3600.
C27_TrailerRoundedHours ==
    BodyReturned =>
        LET e    == unitCall.args.expirySeconds
            last == unitCall.value[Len(unitCall.value)]
            Says(digits) == last.text = <<"> Videos expire ">> \o digits
                                          \o <<" hours after upload.">>
        IN  /\ last.t = "expire"
            /\ \E h \in 0..((e \div 3600) + 1) :
                   /\ 2 * (3600 * h - e) <= 3600
                   /\ 2 * (e - 3600 * h) <= 3600
                   /\ Says(NumberToString(h))
            /\ (e = 259200 => Says(<<"7", "2">>))
            /\ (e = 3600 => Says(<<"1">>))

C27_Witness ==
    /\ BodyReturned /\ unitCall.args.expirySeconds = 3600
    /\ unitCall.value[Len(unitCall.value)].text =
           <<"> Videos expire ", "1", " hours after upload.">>

C29_BodyBeginsWithMarker ==
    BodyReturned =>
        LET c == [id |-> FirstId, hasBody |-> TRUE, body |-> unitCall.value]
            other == [id |-> FirstId + 1, hasBody |-> TRUE, body |-> <<TextLine>>]
        IN  /\ unitCall.value[1] = MarkerLine
            /\ HasMarker(c)
            /\ FindMarked(<<other, c>>) = c

C29_Witness ==
    /\ BodyReturned /\ unitCall.args.header = "" /\ unitCall.args.results = <<>>
    /\ unitCall.value[1] = MarkerLine

(***************************************************************************)
(* getChangedSpecs, called directly.                                       *)
(***************************************************************************)
\* C26 as stated: the call returns the files of the whole diff that are not
\* removed and lie below the pattern's directory, in listing order.
C26_AllWantedFilesOfDiff ==
    (unitCall.fn = "getChangedSpecs" /\ unitCall.returned /\ unitCall.args.hasPr) =>
        LET Wanted(f) == /\ f.status \in {"added", "modified", "renamed"}
                         /\ f.filename[1] = unitCall.args.specPattern[1]
                         /\ f.filename[2] = "/"
            want == SelectSeq(unitCall.args.diff, Wanted)
        IN  unitCall.value = [i \in 1..Len(want) |-> [path |-> want[i].filename]]

\* C26: the call returns the files among the first 3000 of the diff (30
\* pages of 100) that are not removed and lie below the pattern's
\* directory, in listing order, and nothing else; it warns when it stops
\* at the 30th full page.
C26_WantedFilesOfFirstPages ==
    (unitCall.fn = "getChangedSpecs" /\ unitCall.returned /\ unitCall.args.hasPr) =>
        LET diff == unitCall.args.diff
            read == SubSeq(diff, 1, IF Len(diff) < 3000 THEN Len(diff) ELSE 3000)
            Wanted(f) == /\ f.status \in {"added", "modified", "renamed"}
                         /\ f.filename[1] = unitCall.args.specPattern[1]
                         /\ f.filename[2] = "/"
            want == SelectSeq(read, Wanted)
        IN  /\ unitCall.value = [i \in 1..Len(want) |-> [path |-> want[i].filename]]
            /\ unitCall.warnings = (IF Len(diff) >= 3000 THEN 1 ELSE 0)

C26_Witness ==
    /\ unitCall.fn = "getChangedSpecs" /\ unitCall.returned /\ unitCall.args.hasPr
    /\ Len(unitCall.args.diff) = 250 /\ unitCall.requests = 3
    /\ Len(unitCall.value) > 100

(***************************************************************************)
(* The upload callback: put, then presign.                                 *)
(***************************************************************************)
\* C31: a signed URL is requested for an item only when its put has
\* succeeded (the store calls are one put per claimed item and one presign
\* per successful put), an item has a result only if its put and its
\* presign succeeded, and an item whose presign failed has no result while
\* the object this run put is in the store.
C31_PresignAfterPutResultNeedsBoth ==
    (caller = "run" /\ uploadState \in {"running", "returned"}) =>
        LET presigning == {w \in 1..Len(workers) : workers[w].stage = "presign"}
            putOk == {i \in 1..Len(outcome) : outcome[i] \in {"ok", "signfail"}}
            Stored(i) == \E o \in store : /\ o.videoKey = matched[i].videoKey
                                          /\ o.run = runs
        IN  /\ \A w \in presigning : Stored(workers[w].i + 1)
            /\ storeCalls = index + Cardinality(putOk) + Cardinality(presigning)
            /\ \A i \in 1..Len(results) :
                   results[i] \notin {NullV, HoleV} => outcome[i] = "ok"
            /\ \A i \in 1..Len(outcome) :
                   /\ outcome[i] \in {"putfail", "signfail"} => results[i] = NullV
                   /\ outcome[i] = "signfail" => Stored(i)
            /\ uploadState = "returned" =>
                   Len(runResults) = Cardinality({i \in 1..Len(outcome) : outcome[i] = "ok"})

\* one put failed, one presign failed after its put, one item succeeded
C31_Witness ==
    /\ caller = "run" /\ uploadState = "returned"
    /\ \E i, j, k \in 1..Len(outcome) :
           outcome[i] = "putfail" /\ outcome[j] = "signfail" /\ outcome[k] = "ok"
    /\ Len(runResults) = 1 /\ Cardinality({o \in store : o.run = runs}) = 2

(***************************************************************************)
(* The comment stage: page bound, failures, frame.                         *)
(***************************************************************************)
\* C32: the number of listComments calls of one upsert stays below a fixed
\* maximum however long the history is; the maximum tried is the number of
\* full pages of the longest history drawn, MaxPages.
C32_ListCallsBounded ==
    ListCalls <= MaxPages

\* C33: from a history without a marked comment, when two invocations of
\* postOrUpdateComment whose host calls interleave have both finished with
\* a successful write, the pull request carries at most one marked comment.
C33_AtMostOneMarkedAfterBoth ==
    ( /\ cleanStart /\ runs = 1 /\ UpsertSucceeded
      /\ unitCall.state \in {"created", "updated"} ) =>
        MarkedCount(comments) <= 1

\* C34: within one run no two uploads in flight name the same object key
\* and no two results refer to the same stored object.
C34_NoTwoUploadsSameKey ==
    caller = "run" =>
        /\ \A v, w \in 1..Len(workers) :
               ( /\ workers[v].stage \in {"put", "presign"}
                 /\ workers[w].stage \in {"put", "presign"}
                 /\ workers[v].key = workers[w].key ) => v = w
        /\ \A a, b \in 1..Len(runResults) :
               runResults[a].url = runResults[b].url => a = b

\* C35: the failed comment-host call is the last call of the upsert: after
\* a failure nothing is pending, a write is never followed by another call,
\* after a failed listComments (on any page) no write has been issued, and
\* no comment of the history has been changed or added by the upsert.
C35_NoHostCallAfterFailure ==
    /\ \A k \in 1..Len(hostCalls) :
           hostCalls[k].op \in {"update", "create"} => k = Len(hostCalls)
    /\ upsertState = "failed" =>
           /\ pc = "idle"
           /\ hostCalls[Len(hostCalls)].op = "list" => WriteCalls = 0
           /\ Len(comments) >= Len(comments0)
           /\ SubSeq(comments, 1, Len(comments0)) = comments0
           /\ MarkedCount(comments) = MarkedCount(comments0)

\* listComments failed on the second page
C35_Witness ==
    /\ upsertState = "failed"
    /\ hostCalls = << [op |-> "list", arg |-> 1], [op |-> "list", arg |-> 2] >>

\* C36: every step of an upsert leaves the comments as they are, or, when
\* updateComment is answered, changes the body of the one comment with the
\* targeted id (a marked comment) and nothing else, or, when createComment
\* is answered, appends one comment with the built body; no step removes a
\* comment or changes an id.
C36_UpsertChangesOneComment ==
    [][ (pc \in {"list", "update", "create"}) =>
        ( \/ comments' = comments
          \/ /\ pc = "update"
             /\ Len(comments') = Len(comments)
             /\ \E k \in 1..Len(comments) :
                    /\ comments[k].id = target /\ HasMarker(comments[k])
                    /\ comments'[k].id = target /\ comments'[k].body = body
                    /\ \A j \in 1..Len(comments) : j # k => comments'[j] = comments[j]
          \/ /\ pc = "create"
             /\ Len(comments') = Len(comments) + 1
             /\ SubSeq(comments', 1, Len(comments)) = comments
             /\ comments'[Len(comments')].body = body
             /\ \A j \in 1..Len(comments) : comments[j].id # comments'[Len(comments')].id )
      ]_vars

\* an update on a history of more than a page holding two marked comments:
\* the first one was rewritten, the second one and all others were not
C36_Witness ==
    /\ UpsertSucceeded /\ upsertState = "updated"
    /\ Len(comments0) > PerPage /\ MarkedCount(comments0) = 2
    /\ Len(comments) = Len(comments0)
    /\ {k \in 1..Len(comments0) : comments[k] # comments0[k]} = {FirstMarked(comments0)}

====
